---- MODULE Spec2Model ----
(***************************************************************************)
(* A model of the transaction dashboard: the Express/Mongoose backend      *)
(* (record store, seed loader, list / statistics / bar-chart / pie-chart   *)
(* endpoints, combined-data aggregator) and the React Dashboard component. *)
(*                                                                         *)
(* Conventions.                                                            *)
(*  - A JavaScript string is a sequence of one-character strings.  An      *)
(*    absent query parameter is the empty sequence (the handlers treat     *)
(*    undefined and "" alike for month and search; page and perPage fall   *)
(*    back to their destructuring defaults).                               *)
(*  - A JavaScript number taken from a query string is a tagged record     *)
(*    (finite / NaN / Infinity).                                           *)
(*  - A price is held in tenths (1005 is 100.5), so that prices between    *)
(*    two integers exist in the model.                                     *)
(*  - A Date is the number of hours since RefYear-01-01T00:00 server-local *)
(*    time; the years modelled (RefYear-1 .. RefYear+1) have 365 days.     *)
(***************************************************************************)
EXTENDS Integers, Sequences, FiniteSets, TLC

VARIABLES
    collection,   \* the Transaction collection, in natural (insertion) order
    req,          \* the request the backend handled last
    query,        \* the handler's local `query` (the filter it built)
    res           \* the response the backend sent last

\* initializeDatabase
VARIABLES
    seedPc,         \* where the running initializeDatabase stands
    existingCount,  \* its local existingCount
    transactions,   \* its local transactions (response.data)
    seedRuns,       \* how many times initializeDatabase has been started
    fetches,        \* GETs of the seed URL so far
    inserts,        \* insertMany calls so far
    seedLog         \* the last line initializeDatabase logged

\* GET /api/combined-data
VARIABLES
    cPc,      \* where the handler stands: idle, awaiting Promise.all, done
    cMonth,   \* its month parameter
    sub,      \* the state of each of the three axios.get calls
    subData,  \* the data of each call that succeeded
    cSent     \* the responses the handler has sent for this request

\* the Dashboard component
VARIABLES
    selectedMonth, searchText, page, loading, error, totalPages,  \* its state
    shown,     \* the request whose outcome the data states hold
    inflight,  \* the fetchData calls awaiting their responses
    timer,     \* the debounce effect's timeout and what its callback closes over
    issued     \* how many fetchData calls have been made

apiVars == <<req, query, res>>
seedVars == <<seedPc, existingCount, transactions, seedRuns, fetches, inserts, seedLog>>
combinedVars == <<cPc, cMonth, sub, subData, cSent>>
backendVars == <<collection, apiVars, seedVars, combinedVars>>
frontVars == <<selectedMonth, searchText, page, loading, error, totalPages,
               shown, inflight, timer, issued>>
vars == <<collection, apiVars, seedVars, combinedVars, frontVars>>

(***************************************************************************)
(* Bounds of the model.                                                    *)
(***************************************************************************)
MaxDocs == 2

SeqsUpTo(S, n) == UNION {[1..k -> S] : k \in 0..n}

(***************************************************************************)
(* JavaScript numbers and strings.                                         *)
(***************************************************************************)
Finite(n) == [kind |-> "finite", value |-> n]
NaN == [kind |-> "NaN", value |-> 0]
Infinity == [kind |-> "Infinity", value |-> 0]
NUMBER_MAX_VALUE == [kind |-> "MAX_VALUE", value |-> 0]

Tenths(n) == 10 * n

Digits == <<"0", "1", "2", "3", "4", "5", "6", "7", "8", "9">>
IsDigit(c) == \E d \in 1..10 : Digits[d] = c
DigitValue(c) == (CHOOSE d \in 1..10 : Digits[d] = c) - 1
IsWhiteSpace(c) == c = " "

\* `${n}` for a non-negative integer n
RECURSIVE Decimal(_)
Decimal(n) ==
    IF n < 10 THEN <<Digits[n + 1]>>
    ELSE Decimal(n \div 10) \o <<Digits[(n % 10) + 1]>>

RECURSIVE StripLeft(_)
StripLeft(s) ==
    IF s # <<>> /\ IsWhiteSpace(Head(s)) THEN StripLeft(Tail(s)) ELSE s

RECURSIVE StripRight(_)
StripRight(s) ==
    IF s # <<>> /\ IsWhiteSpace(s[Len(s)])
    THEN StripRight(SubSeq(s, 1, Len(s) - 1))
    ELSE s

\* the longest prefix of s made of decimal digits
RECURSIVE DigitPrefix(_)
DigitPrefix(s) ==
    IF s # <<>> /\ IsDigit(Head(s)) THEN <<Head(s)>> \o DigitPrefix(Tail(s))
    ELSE <<>>

\* the value of a non-empty sequence of decimal digits
RECURSIVE DigitsValue(_)
DigitsValue(s) ==
    IF Len(s) = 1 THEN DigitValue(s[1])
    ELSE 10 * DigitsValue(SubSeq(s, 1, Len(s) - 1)) + DigitValue(s[Len(s)])

HasSign(s) == s # <<>> /\ Head(s) \in {"-", "+"}
Unsigned(s) == IF HasSign(s) THEN Tail(s) ELSE s
Signed(s, n) == IF HasSign(s) /\ Head(s) = "-" THEN 0 - n ELSE n

\* parseInt(s): leading white space, an optional sign, then the longest run
\* of decimal digits; NaN when there is none.
ParseInt(s) ==
    LET t == StripLeft(s)
        d == DigitPrefix(Unsigned(t))
    IN  IF d = <<>> THEN NaN ELSE Finite(Signed(t, DigitsValue(d)))

\* Number(s), as isNaN(s) and Number(s) coerce a string: white space is
\* trimmed, the empty string is 0, a signed run of decimal digits is its
\* value, [sign]Infinity is infinite, anything else is NaN.  (Strings of the
\* model hold no ".", "e" or "x": fractions, exponents and radix prefixes
\* are outside the alphabet.)
ToNumber(s) ==
    LET t == StripRight(StripLeft(s))
        u == Unsigned(t)
    IN  IF t = <<>> THEN Finite(0)
        ELSE IF u = <<"I", "n", "f", "i", "n", "i", "t", "y">> THEN Infinity
        ELSE IF u # <<>> /\ DigitPrefix(u) = u THEN Finite(Signed(t, DigitsValue(u)))
        ELSE NaN

IsNaN(s) == ToNumber(s).kind = "NaN"

(***************************************************************************)
(* Dates.                                                                  *)
(***************************************************************************)
RefYear == 2022

DaysInMonth == <<31, 28, 31, 30, 31, 30, 31, 31, 30, 31, 30, 31>>

\* days of the year before the month with 0-based index monthIndex (0..12;
\* index 12 is January of the next year, as the Date constructor
\* normalises it)
RECURSIVE DaysBefore(_)
DaysBefore(monthIndex) ==
    IF monthIndex = 0 THEN 0
    ELSE DaysBefore(monthIndex - 1) + DaysInMonth[monthIndex]

\* new Date(year, monthIndex, day, hour): day 0 is the last day of the
\* previous month
JSDateTime(year, monthIndex, day, hour) ==
    (((year - RefYear) * 365 + DaysBefore(monthIndex) + (day - 1)) * 24) + hour

\* new Date(year, monthIndex, day): midnight, local time
JSDate(year, monthIndex, day) == JSDateTime(year, monthIndex, day, 0)

(***************************************************************************)
(* The Transaction documents.                                              *)
(***************************************************************************)
\* sold is a Boolean path with no default and no `required`: a stored
\* document holds true, false or null, or has no sold field at all.
SoldValues == {"true", "false", "null", "absent"}

OrdinarySale ==
    [id |-> 1,
     title |-> <<"A", "b">>,
     description |-> <<"c", " ", "5">>,
     price |-> 1500,
     category |-> "electronics",
     sold |-> "true",
     dateOfSale |-> JSDateTime(RefYear, 2, 15, 12)]

\* Documents that differ from an ordinary mid-March sale in one field: the
\* contents of the store are whatever the seed source (or an earlier run)
\* put there, nothing is validated beyond the schema's types.
SaleDates ==
    {JSDateTime(RefYear, 2, 1, 0),       \* 1 March, 00:00
     JSDateTime(RefYear, 2, 31, 0),      \* 31 March, 00:00
     JSDateTime(RefYear, 2, 31, 12),     \* 31 March, 12:00
     JSDateTime(RefYear, 3, 1, 0),       \* 1 April, 00:00
     JSDateTime(RefYear, 1, 28, 12),     \* 28 February, 12:00
     JSDateTime(RefYear, 11, 31, 12),    \* 31 December, 12:00
     JSDateTime(RefYear - 1, 2, 15, 12)} \* 15 March of the year before

Prices == {0 - 10, 0, 1000, 1005, 2000, 9010}

AggItems ==
    {[OrdinarySale EXCEPT !.dateOfSale = d] : d \in SaleDates}
    \cup {[OrdinarySale EXCEPT !.price = p] : p \in Prices}
    \cup {[OrdinarySale EXCEPT !.sold = s] : s \in SoldValues}
    \cup {[OrdinarySale EXCEPT !.category = "clothing"]}

(***************************************************************************)
(* Requests and responses.                                                 *)
(***************************************************************************)
\* the month values the Dashboard's select offers (MONTHS), as they appear
\* in a query string
MonthParams == {Decimal(m) : m \in 1..12}

Request(path, month, search, pageParam, perPageParam) ==
    [path |-> path, month |-> month, search |-> search,
     page |-> pageParam, perPage |-> perPageParam]

NoRequest == Request("", <<>>, <<>>, <<>>, <<>>)
NoQuery == [hasDate |-> FALSE, gte |-> 0, lte |-> 0, or |-> <<>>]
NoResponse == [status |-> 0, body |-> <<>>]

Json(body) == [status |-> 200, body |-> body]
\* catch (error) { res.status(500).json({ error: error.message }) }
StoreError == [status |-> 500, body |-> [error |-> "store error"]]

\* The model observes one request at a time: the handlers share nothing but
\* the store, which they only read, so requests do not affect one another.
Idle == res = NoResponse

\* the response has left the server
Deliver ==
    /\ res # NoResponse
    /\ req' = NoRequest
    /\ query' = NoQuery
    /\ res' = NoResponse
    /\ UNCHANGED <<collection, seedVars, combinedVars, frontVars>>

(***************************************************************************)
(* The month filter shared by the four read endpoints.                     *)
(***************************************************************************)
StartDate(month) == JSDate(RefYear, ParseInt(month).value - 1, 1)
EndDate(month) == JSDate(RefYear, ParseInt(month).value, 0)

\* dateOfSale: { $gte: startDate, $lte: endDate }
MonthMatch(doc, month) ==
    /\ doc.dateOfSale >= StartDate(month)
    /\ doc.dateOfSale <= EndDate(month)

MonthDocs(month) ==
    LET InMonth(d) == MonthMatch(d, month)
    IN  SelectSeq(collection, InMonth)

RECURSIVE SumPrice(_)
SumPrice(docs) ==
    IF docs = <<>> THEN 0 ELSE Head(docs).price + SumPrice(Tail(docs))

(***************************************************************************)
(* GET /api/statistics                                                     *)
(***************************************************************************)
StatisticsBody(month) ==
    LET docs == MonthDocs(month)
        \* aggregate([$match, $group]) yields no group for no document, and
        \* totalSales?.total || 0 is then 0
        totalSales == IF docs = <<>> THEN 0 ELSE SumPrice(docs)
        Sold(d) == d.sold = "true"
        NotSold(d) == d.sold = "false"
    IN  [totalSaleAmount |-> totalSales,
         totalSoldItems |-> Len(SelectSeq(docs, Sold)),
         totalNotSoldItems |-> Len(SelectSeq(docs, NotSold))]

GetStatistics ==
    \E month \in MonthParams, ok \in BOOLEAN :
        /\ Idle
        /\ req' = Request("/api/statistics", month, <<>>, <<>>, <<>>)
        /\ res' = IF ok THEN Json(StatisticsBody(month)) ELSE StoreError
        /\ UNCHANGED <<collection, query, seedVars, combinedVars, frontVars>>

(***************************************************************************)
(* GET /api/bar-chart                                                      *)
(***************************************************************************)
ranges ==
    <<[min |-> 0, max |-> Finite(100)],
      [min |-> 101, max |-> Finite(200)],
      [min |-> 201, max |-> Finite(300)],
      [min |-> 301, max |-> Finite(400)],
      [min |-> 401, max |-> Finite(500)],
      [min |-> 501, max |-> Finite(600)],
      [min |-> 601, max |-> Finite(700)],
      [min |-> 701, max |-> Finite(800)],
      [min |-> 801, max |-> Finite(900)],
      [min |-> 901, max |-> Infinity]>>

\* price: { $gte: min, $lt: max === Infinity ? Number.MAX_VALUE : max }
PriceInRange(doc, min, max) ==
    LET upper == IF max = Infinity THEN NUMBER_MAX_VALUE ELSE max
    IN  /\ doc.price >= Tenths(min)
        /\ \/ upper.kind = "MAX_VALUE"
           \/ doc.price < Tenths(upper.value)

\* `${min}-${max === Infinity ? "above" : max}`
RangeLabel(min, max) ==
    Decimal(min) \o <<"-">>
    \o (IF max = Infinity THEN <<"a", "b", "o", "v", "e">> ELSE Decimal(max.value))

BarChartBody(month) ==
    [i \in 1..Len(ranges) |->
        LET InRange(d) == PriceInRange(d, ranges[i].min, ranges[i].max)
        IN  [range |-> RangeLabel(ranges[i].min, ranges[i].max),
             count |-> Len(SelectSeq(MonthDocs(month), InRange))]]

GetBarChart ==
    \E month \in MonthParams, ok \in BOOLEAN :
        /\ Idle
        /\ req' = Request("/api/bar-chart", month, <<>>, <<>>, <<>>)
        /\ res' = IF ok THEN Json(BarChartBody(month)) ELSE StoreError
        /\ UNCHANGED <<collection, query, seedVars, combinedVars, frontVars>>

(***************************************************************************)
(* GET /api/pie-chart                                                      *)
(***************************************************************************)
\* $group by category with count: { $sum: 1 }
CategoryGroups(month) ==
    LET docs == MonthDocs(month)
    IN  {[category |-> c,
          count |-> Cardinality({i \in DOMAIN docs : docs[i].category = c})] :
            c \in {docs[i].category : i \in DOMAIN docs}}

\* $group emits its groups in no specified order
Orderings(S) ==
    {s \in [1..Cardinality(S) -> S] : \A i, j \in DOMAIN s : s[i] = s[j] => i = j}

GetPieChart ==
    \E month \in MonthParams, ok \in BOOLEAN :
        /\ Idle
        /\ req' = Request("/api/pie-chart", month, <<>>, <<>>, <<>>)
        /\ \E body \in Orderings(CategoryGroups(month)) :
              res' = IF ok THEN Json(body) ELSE StoreError
        /\ UNCHANGED <<collection, query, seedVars, combinedVars, frontVars>>

(***************************************************************************)
(* GET /api/transactions                                                   *)
(***************************************************************************)
Null == [kind |-> "null", value |-> 0]

UpperLetters == <<"A", "B", "C", "D", "I">>
LowerLetters == <<"a", "b", "c", "d", "i">>

\* case folding of the "i" flag, for the letters of the model
LowerCase(c) ==
    IF \E k \in DOMAIN UpperLetters : UpperLetters[k] = c
    THEN LowerLetters[CHOOSE k \in DOMAIN UpperLetters : UpperLetters[k] = c]
    ELSE c

Fold(s) == [k \in DOMAIN s |-> LowerCase(s[k])]

\* new RegExp(pattern, "i") matches text: an unanchored, case-insensitive
\* occurrence of the pattern (the strings of the model hold no regular
\* expression metacharacter)
RegexTest(pattern, text) ==
    \E k \in 1..(Len(text) - Len(pattern) + 1) :
        SubSeq(Fold(text), k, k + Len(pattern) - 1) = Fold(pattern)

RegexClause(field, pattern) == [field |-> field, regex |-> pattern, eq |-> Null]
PriceClause(n) == [field |-> "price", regex |-> <<>>, eq |-> n]

\* const numSearch = !isNaN(search) ? Number(search) : null
NumSearch(search) == IF ~IsNaN(search) THEN ToNumber(search) ELSE Null

\* the price alternative pushed on `if (numSearch)` instead
SearchClausesTruthy(search) ==
    <<RegexClause("title", search), RegexClause("description", search)>>
    \o (IF NumSearch(search) \notin {Null, Finite(0)}
        THEN <<PriceClause(NumSearch(search))>> ELSE <<>>)

\* query.$or = [{ title }, { description }], then the price alternative
\* pushed when numSearch !== null
SearchClauses(search) ==
    <<RegexClause("title", search), RegexClause("description", search)>>
    \o (IF NumSearch(search) # Null THEN <<PriceClause(NumSearch(search))>> ELSE <<>>)

\* the handler's `query` for a request r
BuildQuery(r) ==
    [hasDate |-> r.month # <<>>,
     gte |-> IF r.month # <<>> THEN StartDate(r.month) ELSE 0,
     lte |-> IF r.month # <<>> THEN EndDate(r.month) ELSE 0,
     or |-> IF r.search # <<>> THEN SearchClauses(r.search) ELSE <<>>]

ClauseMatches(doc, c) ==
    IF c.field = "price"
    THEN c.eq.kind = "finite" /\ doc.price = Tenths(c.eq.value)
    ELSE RegexTest(c.regex, doc[c.field])

\* the store's evaluation of the filter on one document
Matches(doc, q) ==
    /\ q.hasDate => (doc.dateOfSale >= q.gte /\ doc.dateOfSale <= q.lte)
    /\ q.or # <<>> => \E k \in DOMAIN q.or : ClauseMatches(doc, q.or[k])

\* Transaction.find(query), in natural order
Find(q) ==
    LET Hit(d) == Matches(d, q)
    IN  SelectSeq(collection, Hit)

\* const { page = 1, perPage = 10 } = req.query, as numbers
PageNumber(r) == IF r.page = <<>> THEN Finite(1) ELSE ToNumber(r.page)
PerPageNumber(r) == IF r.perPage = <<>> THEN Finite(10) ELSE ToNumber(r.perPage)

\* skip computed as page * perPage
SkipFromPageZero(r) ==
    IF PageNumber(r).kind = "finite" /\ PerPageNumber(r).kind = "finite"
    THEN Finite(PageNumber(r).value * PerPageNumber(r).value)
    ELSE NaN

\* const skip = (page - 1) * perPage
Skip(r) ==
    IF PageNumber(r).kind = "finite" /\ PerPageNumber(r).kind = "finite"
    THEN Finite((PageNumber(r).value - 1) * PerPageNumber(r).value)
    ELSE NaN

\* parseInt(perPage), parseInt(page)
Limit(r) == IF r.perPage = <<>> THEN Finite(10) ELSE ParseInt(r.perPage)
PageInt(r) == IF r.page = <<>> THEN Finite(1) ELSE ParseInt(r.page)

Min(a, b) == IF a < b THEN a ELSE b
Abs(n) == IF n < 0 THEN 0 - n ELSE n

\* cursor.skip(n)
SkipDocs(docs, n) == SubSeq(docs, n + 1, Len(docs))

\* cursor.limit(n): a limit of 0 is no limit, a negative limit is its
\* absolute value
LimitDocs(docs, n) ==
    IF n = 0 THEN docs ELSE SubSeq(docs, 1, Min(Abs(n), Len(docs)))

\* Math.ceil(total / perPage)
CeilDiv(total, perPage) ==
    IF perPage.kind # "finite" THEN NaN
    ELSE IF perPage.value = 0 THEN (IF total = 0 THEN NaN ELSE Infinity)
    ELSE IF perPage.value > 0 THEN Finite(0 - ((0 - total) \div perPage.value))
    ELSE Finite(0 - (total \div (0 - perPage.value)))

\* res.json writes NaN and Infinity as null
JsonNumber(n) == IF n.kind = "finite" THEN n ELSE Null

\* the handler's response when the store answers; a skip that is negative
\* or not a number, or a limit that is not a number, is rejected by the
\* query and caught
ListResponse(r) ==
    LET found == Find(BuildQuery(r))
    IN  IF Skip(r).kind # "finite" \/ Skip(r).value < 0 \/ Limit(r).kind # "finite"
        THEN [status |-> 500, body |-> [error |-> "bad skip or limit"]]
        ELSE Json([transactions |->
                       LimitDocs(SkipDocs(found, Skip(r).value), Limit(r).value),
                   total |-> Len(found),
                   page |-> JsonNumber(PageInt(r)),
                   totalPages |-> JsonNumber(CeilDiv(Len(found), PerPageNumber(r)))])

MaxPage == 3
MaxPerPage == 2
MaxListDocs == 3

PageParams == {<<>>} \cup {Decimal(n) : n \in 1..MaxPage}
PerPageParams == {<<>>} \cup {Decimal(n) : n \in 0..MaxPerPage}
ListMonthParams == {<<>>, Decimal(3)}

Searches ==
    {<<>>,
     <<"a", "b">>,
     <<"5">>,
     <<" ">>,
     <<"-", "5">>,
     <<"5", "a">>,
     <<"I", "n", "f", "i", "n", "i", "t", "y">>}

GetTransactions ==
    \E month \in ListMonthParams, search \in Searches,
       pageParam \in PageParams, perPageParam \in PerPageParams, ok \in BOOLEAN :
        LET r == Request("/api/transactions", month, search, pageParam, perPageParam)
        IN  /\ Idle
            /\ req' = r
            /\ query' = BuildQuery(r)
            /\ res' = IF ok THEN ListResponse(r) ELSE StoreError
            /\ UNCHANGED <<collection, seedVars, combinedVars, frontVars>>

(***************************************************************************)
(* initializeDatabase, run at every start of the process                   *)
(***************************************************************************)
MaxSeedRuns == 3

\* an item of the seed document carries dateOfSale as an ISO-8601 string,
\* here its parts: year, month 1..12, day, hour
IsoDate(y, m, d, h) == [year |-> y, month |-> m, day |-> d, hour |-> h]

RemoteItems ==
    {[OrdinarySale EXCEPT !.dateOfSale = IsoDate(RefYear, 3, 15, 12)],
     [OrdinarySale EXCEPT !.id = 2, !.sold = "false",
                          !.dateOfSale = IsoDate(RefYear - 1, 11, 27, 20)],
     [OrdinarySale EXCEPT !.id = 3, !.sold = "absent",
                          !.dateOfSale = IsoDate(RefYear, 3, 31, 12)]}

Payloads == SeqsUpTo(RemoteItems, MaxDocs)

\* new Date(t.dateOfSale)
ParseDate(iso) == JSDateTime(iso.year, iso.month - 1, iso.day, iso.hour)

\* transactions.map((t) => ({ ...t, dateOfSale: new Date(t.dateOfSale) }))
Coerce(items) ==
    [k \in DOMAIN items |-> [items[k] EXCEPT !.dateOfSale = ParseDate(@)]]

\* the guard dropped: the store is seeded at every start
NeedsSeedAlways(count) == TRUE

\* if (existingCount === 0)
NeedsSeed(count) == count = 0

\* const existingCount = await Transaction.countDocuments(), and the branch
\* on it; a failing count is caught and logged
SeedStart ==
    /\ seedPc = "idle"
    /\ seedRuns < MaxSeedRuns
    /\ seedRuns' = seedRuns + 1
    /\ \E ok \in BOOLEAN :
          IF ~ok
          THEN /\ seedLog' = "Error initializing database"
               /\ UNCHANGED <<seedPc, existingCount>>
          ELSE /\ existingCount' = Len(collection)
               /\ IF NeedsSeed(Len(collection))
                  THEN /\ seedPc' = "fetching"
                       /\ seedLog' = "Initializing database..."
                  ELSE /\ seedPc' = "idle"
                       /\ seedLog' = "Database already contains data"
    /\ UNCHANGED <<collection, transactions, fetches, inserts, apiVars, combinedVars, frontVars>>

\* const response = await axios.get(seed URL)
SeedFetch ==
    /\ seedPc = "fetching"
    /\ fetches' = fetches + 1
    /\ \/ \E payload \in Payloads :
             /\ transactions' = payload
             /\ seedPc' = "inserting"
             /\ UNCHANGED seedLog
       \/ /\ seedPc' = "idle"
          /\ seedLog' = "Error initializing database"
          /\ UNCHANGED transactions
    /\ UNCHANGED <<collection, existingCount, seedRuns, inserts, apiVars, combinedVars, frontVars>>

\* await Transaction.insertMany(...): all the documents, or, when the store
\* fails on the way, the documents before the failure
SeedInsert ==
    /\ seedPc = "inserting"
    /\ inserts' = inserts + 1
    /\ seedPc' = "idle"
    /\ \E n \in 0..Len(transactions) :
          /\ collection' = collection \o SubSeq(Coerce(transactions), 1, n)
          /\ seedLog' = IF n = Len(transactions)
                        THEN "Database initialized successfully"
                        ELSE "Error initializing database"
    /\ UNCHANGED <<existingCount, transactions, seedRuns, fetches, apiVars, combinedVars, frontVars>>

InitSeedVars ==
    /\ seedPc = "idle"
    /\ existingCount = 0
    /\ transactions = <<>>
    /\ seedRuns = 0
    /\ fetches = 0
    /\ inserts = 0
    /\ seedLog = ""

(***************************************************************************)
(* GET /api/combined-data                                                  *)
(***************************************************************************)
SubPaths == {"/api/statistics", "/api/bar-chart", "/api/pie-chart"}

NoData == <<>>

\* what the sibling endpoint may answer with
EndpointData(path, month) ==
    IF path = "/api/statistics" THEN {StatisticsBody(month)}
    ELSE IF path = "/api/bar-chart" THEN {BarChartBody(month)}
    ELSE Orderings(CategoryGroups(month))

\* a combinator that waits for every call and never rejects
PromiseAllSettled(states) ==
    IF \A k \in SubPaths : states[k] # "pending" THEN "fulfilled" ELSE "pending"

\* Promise.all over the three calls: rejected as soon as one call has
\* failed, fulfilled once all have succeeded
PromiseAll(states) ==
    IF \E k \in SubPaths : states[k] = "failed" THEN "rejected"
    ELSE IF \A k \in SubPaths : states[k] = "ok" THEN "fulfilled"
    ELSE "pending"

CombinedError == [status |-> 500, body |-> [error |-> "Failed to fetch combined data"]]

CombinedBody(data) ==
    [statistics |-> data["/api/statistics"],
     barChart |-> data["/api/bar-chart"],
     pieChart |-> data["/api/pie-chart"]]

\* the handler up to its await: the three axios.get calls are issued
CombinedStart ==
    \E month \in MonthParams :
        /\ cPc = "idle"
        /\ cPc' = "awaiting"
        /\ cMonth' = month
        /\ sub' = [k \in SubPaths |-> "pending"]
        /\ subData' = [k \in SubPaths |-> NoData]
        /\ cSent' = <<>>
        /\ UNCHANGED <<collection, apiVars, seedVars, frontVars>>

\* one axios.get settles: with the sibling endpoint's data on a 2xx answer,
\* as a rejection otherwise.  When this settles Promise.all, the handler
\* resumes in the same turn of the event loop and sends its response.
SubRequestSettles ==
    \E k \in SubPaths, ok \in BOOLEAN :
        /\ sub[k] = "pending"
        /\ sub' = [sub EXCEPT ![k] = IF ok THEN "ok" ELSE "failed"]
        /\ \E data \in EndpointData(k, cMonth) :
              subData' = [subData EXCEPT ![k] = IF ok THEN data ELSE NoData]
        /\ IF cPc = "awaiting" /\ PromiseAll(sub') = "fulfilled"
           THEN /\ cSent' = Append(cSent, Json(CombinedBody(subData')))
                /\ cPc' = "done"
           ELSE IF cPc = "awaiting" /\ PromiseAll(sub') = "rejected"
           THEN /\ cSent' = Append(cSent, CombinedError)
                /\ cPc' = "done"
           ELSE UNCHANGED <<cSent, cPc>>
        /\ UNCHANGED <<cMonth, collection, apiVars, seedVars, frontVars>>

\* the request is over: the response is sent and no call is outstanding
CombinedEnd ==
    /\ cPc = "done"
    /\ \A k \in SubPaths : sub[k] # "pending"
    /\ cPc' = "idle"
    /\ cMonth' = <<>>
    /\ sub' = [k \in SubPaths |-> "idle"]
    /\ subData' = [k \in SubPaths |-> NoData]
    /\ cSent' = <<>>
    /\ UNCHANGED <<collection, apiVars, seedVars, frontVars>>

InitCombinedVars ==
    /\ cPc = "idle"
    /\ cMonth = <<>>
    /\ sub = [k \in SubPaths |-> "idle"]
    /\ subData = [k \in SubPaths |-> NoData]
    /\ cSent = <<>>

(***************************************************************************)
(* The Dashboard component (frontend/src/App.js)                           *)
(***************************************************************************)
MaxFetches == 4

\* the months and the search texts the user of the model picks
ChosenMonths == {3, 4}
SearchTexts == {<<>>, <<"a">>, <<"a", "b">>}

Params(month, search, pageNo) == [month |-> month, search |-> search, page |-> pageNo]

NoTimer == [armed |-> FALSE, due |-> FALSE, closure |-> Params(0, <<>>, 0)]

\* setTimeout(callback, 500) in a render whose state is `closure`
Armed(closure) == [armed |-> TRUE, due |-> FALSE, closure |-> closure]

Outcome(r, kind) ==
    [id |-> r.id, month |-> r.month, search |-> r.search, page |-> r.page,
     kind |-> kind]

\* a call of the fetchData built in a render whose state is p, up to its
\* await: setLoading(true), setError(null), the two fetches sent
CallFetchData(p) ==
    /\ issued < MaxFetches
    /\ issued' = issued + 1
    /\ loading' = TRUE
    /\ error' = ""
    /\ inflight' = inflight \cup
          {[id |-> issued + 1, month |-> p.month, search |-> p.search, page |-> p.page]}

\* handleMonthChange, the render it causes and the effect on [fetchData]
HandleMonthChange ==
    \E m \in ChosenMonths \ {selectedMonth} :
        /\ selectedMonth' = m
        /\ page' = 1
        /\ CallFetchData(Params(m, searchText, 1))
        /\ UNCHANGED <<searchText, totalPages, shown, timer, backendVars>>

\* the search input's onChange, the render it causes and its two effects:
\* [fetchData] calls the new fetchData, [searchText] clears the old timeout
\* and sets a new one
SearchChange ==
    \E text \in SearchTexts \ {searchText} :
        /\ searchText' = text
        /\ CallFetchData(Params(selectedMonth, text, page))
        /\ timer' = Armed(Params(selectedMonth, text, page))
        /\ UNCHANGED <<selectedMonth, page, totalPages, shown, backendVars>>

\* the Previous and Next buttons are rendered only when neither loading nor
\* error is set
ButtonsShown == ~loading /\ error = ""

ClickNext ==
    /\ ButtonsShown
    /\ page # totalPages
    /\ page < MaxPage
    /\ page' = page + 1
    /\ CallFetchData(Params(selectedMonth, searchText, page + 1))
    /\ UNCHANGED <<selectedMonth, searchText, totalPages, shown, timer, backendVars>>

ClickPrevious ==
    /\ ButtonsShown
    /\ page # 1
    /\ page' = page - 1
    /\ CallFetchData(Params(selectedMonth, searchText, page - 1))
    /\ UNCHANGED <<selectedMonth, searchText, totalPages, shown, timer, backendVars>>

\* 500 ms have passed since the timeout was set
DelayElapses ==
    /\ timer.armed
    /\ ~timer.due
    /\ timer' = [timer EXCEPT !.due = TRUE]
    /\ UNCHANGED <<selectedMonth, searchText, page, loading, error, totalPages,
                   shown, inflight, issued, backendVars>>

\* the timeout's callback, with the page and the fetchData of the render
\* that set it: setPage(1) when that page was not 1 (a render, and the
\* [fetchData] effect, follow if the page now is not 1), else that
\* render's fetchData()
TimerFires ==
    /\ timer.armed
    /\ timer.due
    /\ timer' = NoTimer
    /\ IF timer.closure.page # 1
       THEN IF page # 1
            THEN /\ page' = 1
                 /\ CallFetchData(Params(selectedMonth, searchText, 1))
            ELSE UNCHANGED <<page, loading, error, inflight, issued>>
       ELSE /\ CallFetchData(timer.closure)
            /\ UNCHANGED page
    /\ UNCHANGED <<selectedMonth, searchText, totalPages, shown, backendVars>>

\* a fetchData call resumes after its await with both responses ok: the
\* data states are set from them (totalPages || 1), then setLoading(false)
FetchSucceeds ==
    \E r \in inflight, serverPages \in 0..MaxPage :
        /\ inflight' = inflight \ {r}
        /\ shown' = Outcome(r, "data")
        /\ totalPages' = IF serverPages = 0 THEN 1 ELSE serverPages
        /\ loading' = FALSE
        /\ UNCHANGED <<selectedMonth, searchText, page, error, timer, issued, backendVars>>

\* a fetchData call resumes in its catch: setError, the data states reset
\* (totalPages is not), then setLoading(false)
FetchFails ==
    \E r \in inflight :
        /\ inflight' = inflight \ {r}
        /\ shown' = Outcome(r, "reset")
        /\ error' = "Failed to fetch data"
        /\ loading' = FALSE
        /\ UNCHANGED <<selectedMonth, searchText, page, totalPages, timer, issued, backendVars>>

\* the component as the specifications of the backend leave it: not mounted
InitDashboard ==
    /\ selectedMonth = 3
    /\ searchText = <<>>
    /\ page = 1
    /\ loading = TRUE
    /\ error = ""
    /\ totalPages = 1
    /\ shown = Outcome([id |-> 0, month |-> 0, search |-> <<>>, page |-> 0], "initial")
    /\ inflight = {}
    /\ timer = NoTimer
    /\ issued = 0

\* the component after its first render and the first run of its two
\* effects: fetchData() called, the debounce timeout set
InitMounted ==
    /\ selectedMonth = 3
    /\ searchText = <<>>
    /\ page = 1
    /\ loading = TRUE
    /\ error = ""
    /\ totalPages = 1
    /\ shown = Outcome([id |-> 0, month |-> 0, search |-> <<>>, page |-> 0], "initial")
    /\ inflight = {[id |-> 1, month |-> 3, search |-> <<>>, page |-> 1]}
    /\ timer = Armed(Params(3, <<>>, 1))
    /\ issued = 1

(***************************************************************************)
(* Specifications.                                                         *)
(***************************************************************************)
(***************************************************************************)
(* The aggregate endpoints over every store of at most MaxDocs documents.  *)
(***************************************************************************)
InitApi ==
    /\ req = NoRequest
    /\ query = NoQuery
    /\ res = NoResponse

Init ==
    /\ collection \in SeqsUpTo(AggItems, MaxDocs)
    /\ InitApi
    /\ InitSeedVars
    /\ InitCombinedVars
    /\ InitDashboard

Next ==
    \/ GetStatistics
    \/ GetBarChart
    \/ GetPieChart
    \/ Deliver

Spec == Init /\ [][Next]_vars

\* documents told apart by what the search reads: title, description, price
ListItems ==
    {OrdinarySale,
     [OrdinarySale EXCEPT !.title = <<"d">>, !.description = <<"a", "B">>],
     [OrdinarySale EXCEPT !.description = <<"d">>, !.price = Tenths(5)],
     [OrdinarySale EXCEPT !.description = <<"d">>, !.price = 0,
                          !.dateOfSale = JSDateTime(RefYear, 3, 1, 0)]}

InitList ==
    /\ collection \in SeqsUpTo(ListItems, MaxListDocs)
    /\ InitApi
    /\ InitSeedVars
    /\ InitCombinedVars
    /\ InitDashboard

NextList ==
    \/ GetTransactions
    \/ Deliver

SpecList == InitList /\ [][NextList]_vars

\* the seed loader over restarts of the process; the store it finds at the
\* first start is empty or holds a document from an earlier life
InitSeed ==
    /\ collection \in SeqsUpTo(ListItems, 1)
    /\ InitApi
    /\ InitSeedVars
    /\ InitCombinedVars
    /\ InitDashboard

NextSeed ==
    \/ SeedStart
    \/ SeedFetch
    \/ SeedInsert

SpecSeed == InitSeed /\ [][NextSeed]_vars

\* the aggregator over every store of at most one document
InitCombined ==
    /\ collection \in SeqsUpTo(AggItems, 1)
    /\ InitApi
    /\ InitSeedVars
    /\ InitCombinedVars
    /\ InitDashboard

NextCombined ==
    \/ CombinedStart
    \/ SubRequestSettles
    \/ CombinedEnd

SpecCombined == InitCombined /\ [][NextCombined]_vars

\* the Dashboard against a backend that answers every request, in any order
InitFrontend ==
    /\ collection = <<>>
    /\ InitApi
    /\ InitSeedVars
    /\ InitCombinedVars
    /\ InitMounted

NextFrontend ==
    \/ HandleMonthChange
    \/ SearchChange
    \/ ClickNext
    \/ ClickPrevious
    \/ DelayElapses
    \/ TimerFires
    \/ FetchSucceeds
    \/ FetchFails

SpecFrontend == InitFrontend /\ [][NextFrontend]_vars

(***************************************************************************)
(* Claims about the aggregate endpoints.                                   *)
(***************************************************************************)
Answered(path) == req.path = path /\ res.status = 200

RECURSIVE SumCounts(_)
SumCounts(rows) ==
    IF rows = <<>> THEN 0 ELSE Head(rows).count + SumCounts(Tail(rows))

MonthNumber(month) == CHOOSE m \in 1..12 : Decimal(m) = month

\* dateOfSale falls in calendar month m of RefYear: from the first day,
\* 00:00, up to (not including) the first day of the next month, 00:00
InCalendarMonth(doc, m) ==
    /\ doc.dateOfSale >= JSDateTime(RefYear, m - 1, 1, 0)
    /\ doc.dateOfSale < JSDateTime(RefYear, m, 1, 0)

BucketLabels ==
    <<<<"0", "-", "1", "0", "0">>,
      <<"1", "0", "1", "-", "2", "0", "0">>,
      <<"2", "0", "1", "-", "3", "0", "0">>,
      <<"3", "0", "1", "-", "4", "0", "0">>,
      <<"4", "0", "1", "-", "5", "0", "0">>,
      <<"5", "0", "1", "-", "6", "0", "0">>,
      <<"6", "0", "1", "-", "7", "0", "0">>,
      <<"7", "0", "1", "-", "8", "0", "0">>,
      <<"8", "0", "1", "-", "9", "0", "0">>,
      <<"9", "0", "1", "-", "a", "b", "o", "v", "e">>>>

\* C1: every bar-chart response has the 10 buckets 0-100, 101-200, ...,
\* 901-above in this order, and its counts add up to the number of
\* month-filtered documents whose price is not negative.
C1_BucketsCoverNonNegativePrices ==
    Answered("/api/bar-chart") =>
        /\ Len(res.body) = 10
        /\ [i \in 1..10 |-> res.body[i].range] = BucketLabels
        /\ SumCounts(res.body) =
              Cardinality({i \in DOMAIN collection :
                  /\ MonthMatch(collection[i], req.month)
                  /\ collection[i].price >= 0})

\* C3: in every statistics response, totalSoldItems + totalNotSoldItems is
\* the number of documents that pass the month filter, whatever their sold
\* field holds.
C3_SoldPlusNotSoldIsMonthTotal ==
    Answered("/api/statistics") =>
        res.body.totalSoldItems + res.body.totalNotSoldItems =
            Cardinality({i \in DOMAIN collection :
                MonthMatch(collection[i], req.month)})

\* C4: for a month m in 1..12 the month filter selects exactly the documents
\* whose dateOfSale lies in calendar month m of 2022, the whole last day
\* included; the pie chart, which counts every selected document once,
\* counts exactly those.
C4_FilterSelectsCalendarMonth ==
    (req.month \in MonthParams /\ res.status = 200) =>
        /\ \A i \in DOMAIN collection :
              MonthMatch(collection[i], req.month)
                  <=> InCalendarMonth(collection[i], MonthNumber(req.month))
        /\ Answered("/api/pie-chart") =>
              SumCounts(res.body) =
                  Cardinality({i \in DOMAIN collection :
                      InCalendarMonth(collection[i], MonthNumber(req.month))})

(***************************************************************************)
(* Claims about the list endpoint (checked under SpecList).                *)
(***************************************************************************)
WithPage(r, p) == [r EXCEPT !.page = Decimal(p)]

\* the transactions arrays of pages 1..n of request r, concatenated
RECURSIVE ConcatPages(_, _)
ConcatPages(r, n) ==
    IF n = 0 THEN <<>>
    ELSE ConcatPages(r, n - 1) \o ListResponse(WithPage(r, n)).body.transactions

PerPageAtLeastOne(r) ==
    PerPageNumber(r).kind = "finite" /\ PerPageNumber(r).value >= 1

\* C2: for a filter (month, search) and a perPage >= 1, total is the number
\* of documents matching the filter, totalPages is ceil(total / perPage), and
\* the pages 1..totalPages, concatenated, are the matching documents, each
\* exactly once.
C2_PagesPartitionMatches ==
    (Answered("/api/transactions") /\ PerPageAtLeastOne(req)) =>
        LET perPage == PerPageNumber(req).value
            total == res.body.total
            pages == res.body.totalPages
        IN  /\ total = Cardinality({i \in DOMAIN collection : Matches(collection[i], query)})
            /\ pages.kind = "finite"
            /\ pages.value * perPage >= total
            /\ (pages.value - 1) * perPage < total \/ total = 0
            /\ total = 0 => pages.value = 0
            /\ ConcatPages(req, pages.value) = Find(query)

C2_SeveralPages ==
    /\ Answered("/api/transactions")
    /\ req.perPage = Decimal(1)
    /\ req.page = Decimal(2)
    /\ res.body.totalPages = Finite(3)
    /\ Len(res.body.transactions) = 1
    /\ res.body.transactions[1] = Find(query)[2]
    /\ Find(query)[1] # Find(query)[2]

IsLetter(c) ==
    \/ \E k \in DOMAIN UpperLetters : UpperLetters[k] = c
    \/ \E k \in DOMAIN LowerLetters : LowerLetters[k] = c
    \/ c \in {"n", "f", "t", "y"}

TextMatch(doc, search) ==
    RegexTest(search, doc.title) \/ RegexTest(search, doc.description)

C8_AtMostPerPage ==
    (Answered("/api/transactions") /\ PerPageNumber(req).kind = "finite") =>
        Len(res.body.transactions) <= PerPageNumber(req).value

(***************************************************************************)
(* Claims about the seed loader (SpecSeed) and the aggregator              *)
(* (SpecCombined).                                                         *)
(***************************************************************************)
\* C6: while the collection holds at least one document, no step of
\* initializeDatabase changes the collection, fetches the seed document or
\* inserts: every run after a successful one is a no-op.
C6_SeedIsNoOpOnNonEmptyStore ==
    [][Len(collection) >= 1 =>
          /\ collection' = collection
          /\ fetches' = fetches
          /\ inserts' = inserts]_vars

\* a second run that found the documents of the first and did nothing
C6_SecondRunSkipped ==
    /\ seedRuns >= 2
    /\ seedPc = "idle"
    /\ seedLog = "Database already contains data"
    /\ existingCount = Len(collection)
    /\ existingCount >= 1
    /\ fetches = 1
    /\ inserts = 1

AnyFailed == \E k \in SubPaths : sub[k] = "failed"
AllOk == \A k \in SubPaths : sub[k] = "ok"

\* C7: the handler answers at most once, and has answered exactly when it is
\* done; once a call has failed the one answer is the 500 with the generic
\* error; once all three have succeeded it is the 200 with the three results
\* (those the endpoints give for the month); and while neither is the case
\* nothing has been sent, so no answer ever holds only some of the results.
C7_AllOrNothing ==
    /\ Len(cSent) <= 1
    /\ (cPc = "done") <=> (Len(cSent) = 1)
    /\ cPc # "idle" =>
          /\ AnyFailed => cSent = <<CombinedError>>
          /\ AllOk =>
                /\ cSent = <<Json(CombinedBody(subData))>>
                /\ subData["/api/statistics"] = StatisticsBody(cMonth)
                /\ subData["/api/bar-chart"] = BarChartBody(cMonth)
                /\ subData["/api/pie-chart"] \in Orderings(CategoryGroups(cMonth))
          /\ (~AnyFailed /\ ~AllOk) => cSent = <<>>

\* two calls succeeded, one failed: the answer is the error, not two results
C7_OneFailureFailsAll ==
    /\ cPc = "done"
    /\ sub["/api/statistics"] = "ok"
    /\ sub["/api/pie-chart"] = "ok"
    /\ sub["/api/bar-chart"] = "failed"
    /\ subData["/api/statistics"].totalSoldItems = 1
    /\ cSent = <<CombinedError>>

(***************************************************************************)
(* Claims about the Dashboard (SpecFrontend).                              *)
(***************************************************************************)
\* C9: a change of searchText issues no request itself (the request waits
\* for 500 ms without a further change), so k changes in a row issue none.
C9_SearchChangeIssuesNoFetch ==
    [][searchText' # searchText => issued' = issued]_vars

\* C10: once no fetch is in flight, the data shown is the outcome of the
\* request issued last, and that request is the one for the current
\* selectedMonth, searchText and page.
C10_ShownIsLatestRequest ==
    inflight = {} =>
        /\ shown.id = issued
        /\ shown.month = selectedMonth
        /\ shown.search = searchText
        /\ shown.page = page

====
